---- MODULE Spec2Model ----
(***************************************************************************)
(* Session protocol of sprint-desk (backend/src/routes/auth.ts): register, *)
(* login, refresh and logout over the User and RefreshToken collections;   *)
(* and, further down, its realtime gateway (backend/src/socket.ts).        *)
(*                                                                         *)
(* Every handler is an async function.  A request is a process in a slot   *)
(* of `req`; one step of a request is one database operation (the awaited  *)
(* call) together with the synchronous code that runs after it up to the   *)
(* next await.  The two bcrypt awaits touch no shared state and are folded *)
(* into the step that precedes them.  `last` is the request that has just  *)
(* finished, with its response, until the client has received it;          *)
(* `loggedOut`, `registered` and the fields rotatedFrom, why, afterLogout, *)
(* replayed, lookupAt, snapshot, before, usersBefore and afterRegister are *)
(* history.                                                                *)
(***************************************************************************)
EXTENDS Integers, Sequences, FiniteSets, TLC

VARIABLES users, records, now, nextToken, req, last, loggedOut, registered

\* the realtime gateway (backend/src/socket.ts)
VARIABLES io, sockets, rooms, joining, ack, members, events

session == <<users, records, nextToken, req, last, loggedOut, registered>>
\* the client hook useWorkspaceSocket (frontend)
VARIABLES hook

gateway == <<io, sockets, rooms, joining, ack, members, events>>
client == <<hook>>
vars == <<now, session, gateway, client>>

(***************************************************************************)
(* Bounds of the model.                                                    *)
(***************************************************************************)
MaxSlots == 2
MaxRecords == 3
MaxTime == 2
MaxConns == 2
MaxEvents == 1
MaxJoining == 1

Slots == 1..MaxSlots

(***************************************************************************)
(* Inputs.  "" is a missing body field, cookie 0 a missing cookie, cookie  *)
(* 1 a token the server never issued; issued tokens are 2, 3, ... and a    *)
(* client can present one once its record exists (Cookies, below).         *)
(***************************************************************************)
Emails == {"", "a@x", "A@x", "b@x"}
RaceEmails == {"", "a@x", "A@x"}
Names == {"", "n"}
RegisterPasswords == {"", "p"}
LoginPasswords == {"", "p", "q"}
ToLowerCase(e) == IF e = "A@x" THEN "a@x" ELSE e

(***************************************************************************)
(* utils/tokens and bcryptjs.                                              *)
(***************************************************************************)
\* one-way digest of a raw token; injective on the tokens of the model
hashToken(t) == (7 * t + 3) % 61

\* expiry of a refresh token issued at time t
refreshTokenExpiresAt(t) == t + 1

\* signed identity assertion for a user, issued at time t
createAccessToken(uid, t) == [sub |-> uid, iat |-> t]

bcryptHash(pw) == <<"bcrypt", pw>>
bcryptCompare(pw, h) == h = bcryptHash(pw)

(***************************************************************************)
(* Dates: a nullable Date is the empty set (null) or a singleton.          *)
(***************************************************************************)
NullDate == {}
DateAt(t) == {t}

(***************************************************************************)
(* Responses.                                                              *)
(***************************************************************************)
NoToken == [sub |-> 0, iat |-> 0]
NoResp == [status |-> 0, message |-> "", setCookie |-> 0, clearCookie |-> FALSE,
           accessToken |-> NoToken, user |-> 0]

\* res.status(s).json({ message })
JsonMessage(s, m) == [NoResp EXCEPT !.status = s, !.message = m]

\* res.cookie(refreshCookieName, tok, ...); res.status(s).json({ accessToken, user })
JsonSession(s, tok, uid, t) ==
    [NoResp EXCEPT !.status = s, !.setCookie = tok,
                   !.accessToken = createAccessToken(uid, t), !.user = uid]

\* res.clearCookie(refreshCookieName); res.json({ ok: true })
JsonOk == [NoResp EXCEPT !.status = 200, !.message = "ok", !.clearCookie = TRUE]

\* the registration that has just succeeded, until the next request arrives:
\* its credentials and what it was sent
NoSession == [email |-> "", password |-> "", user |-> 0, accessToken |-> NoToken]

(***************************************************************************)
(* Request slots.                                                          *)
(***************************************************************************)
NoDoc == [userId |-> 0, tokenHash |-> 0, expiresAt |-> 0, revokedAt |-> NullDate,
          rotatedFrom |-> 0]

IdleReq == [kind |-> "none", pc |-> "idle", cookie |-> 0, email |-> "",
            name |-> "", password |-> "", storedId |-> 0, userId |-> 0,
            revokedAt |-> NullDate, newToken |-> 0, expiresAt |-> 0, why |-> "",
            afterLogout |-> FALSE, replayed |-> FALSE, lookupAt |-> 0,
            snapshot |-> NoDoc, before |-> <<>>, usersBefore |-> <<>>,
            afterRegister |-> NoSession, resp |-> NoResp]

Busy(r) == req[r].pc # "idle"

\* no response is on its way to a client
Quiet == last.pc = "idle"

\* requests take the lowest idle slot
Admit(r) ==
    /\ Quiet
    /\ ~Busy(r)
    /\ \A q \in 1..(r - 1) : Busy(q)

\* the table has room for a record of every request in flight and one more
HasRoom == Len(records) + Cardinality({q \in Slots : Busy(q)}) < MaxRecords

\* a request that may create a record is admitted while the table has room
CanStart(r) == Admit(r) /\ HasRoom

\* the request in slot r goes on
Continue(r, rec) ==
    /\ req' = [req EXCEPT ![r] = rec]
    /\ UNCHANGED last

\* the request in slot r ends with a response
Respond(r, rec, response, reason) ==
    /\ req' = [req EXCEPT ![r] = IdleReq]
    /\ last' = [rec EXCEPT !.pc = "done", !.resp = response, !.why = reason,
                           !.before = records]

(***************************************************************************)
(* Collections.                                                            *)
(***************************************************************************)
\* UserModel.findOne({ email }): index of the first match, 0 if none
UserFindOne(e) ==
    IF \E i \in 1..Len(users) : users[i].email = e
    THEN CHOOSE i \in 1..Len(users) :
            /\ users[i].email = e
            /\ \A j \in 1..(i - 1) : users[j].email # e
    ELSE 0

\* the place of a user document that is no longer in the collection; ids are
\* not given again, and no query by email matches it
NoUser == [email |-> "(none)", name |-> "", passwordHash |-> <<>>]

\* UserModel.findById(id): the id if the document exists, 0 for null
UserFindById(id) ==
    IF id \in 1..Len(users) /\ users[id] # NoUser THEN id ELSE 0

\* RefreshTokenModel.findOne({ tokenHash }): index of the first match, 0 if none
RefreshTokenFindOne(h) ==
    IF \E i \in 1..Len(records) : records[i].tokenHash = h
    THEN CHOOSE i \in 1..Len(records) :
            /\ records[i].tokenHash = h
            /\ \A j \in 1..(i - 1) : records[j].tokenHash # h
    ELSE 0

\* RefreshTokenModel.create({ userId, tokenHash, expiresAt }); rotatedFrom is
\* the hash of the token whose refresh created the record, 0 for a record
\* created by login or register
RefreshTokenCreate(uid, tok, exp, from) ==
    Append(records, [userId |-> uid, tokenHash |-> hashToken(tok),
                     expiresAt |-> exp,
                     revokedAt |-> NullDate, rotatedFrom |-> from])

\* the cookies a client can present: none, a forged one, or a token it was
\* sent, whose record exists
Cookies ==
    {0, 1} \cup {t \in 2..(nextToken - 1) : RefreshTokenFindOne(hashToken(t)) # 0}

\* the validity invariant of a record at time t
Valid(rec, t) == rec.revokedAt = NullDate /\ t < rec.expiresAt

\* the session protocol over an empty database, no request in flight
InitSession ==
    /\ users = <<>>
    /\ records = <<>>
    /\ now = 0
    /\ nextToken = 2
    /\ req = [r \in Slots |-> IdleReq]
    /\ last = IdleReq
    /\ loggedOut = {}
    /\ registered = NoSession

\* the clock advances; a request that has computed the expiry of a new
\* record writes the record within the same tick (a database write is far
\* shorter than the lifetime of a refresh token)
Tick ==
    /\ Quiet
    /\ now < MaxTime
    /\ \A r \in Slots : req[r].pc \notin {"create", "createToken"}
    /\ now' = now + 1
    /\ UNCHANGED <<users, records, nextToken, req, last, loggedOut, registered>>

(***************************************************************************)
(* POST /register                                                          *)
(***************************************************************************)
StartRegister(r, e, n, p) ==
    LET rec == [IdleReq EXCEPT !.kind = "register", !.pc = "findOne",
                               !.email = e, !.name = n, !.password = p,
                               !.usersBefore = users] IN
    /\ CanStart(r)
    /\ IF e = "" \/ n = "" \/ p = ""
       THEN Respond(r, rec, JsonMessage(400, "Missing required fields"), "missing")
       ELSE Continue(r, rec)
    /\ UNCHANGED <<users, records, now, nextToken, loggedOut>>
    /\ registered' = NoSession

\* a lookup by the email as it was typed
RegisterFindOneCaseSensitive(r) ==
    /\ Quiet
    /\ req[r].kind = "register" /\ req[r].pc = "findOne"
    /\ IF UserFindOne(req[r].email) # 0
       THEN Respond(r, req[r], JsonMessage(409, "Email already in use"), "emailInUse")
       ELSE Continue(r, [req[r] EXCEPT !.pc = "createUser"])
    /\ UNCHANGED <<users, records, now, nextToken, loggedOut, registered>>

\* UserModel.findOne, then bcrypt.hash
RegisterFindOne(r) ==
    /\ Quiet
    /\ req[r].kind = "register" /\ req[r].pc = "findOne"
    /\ IF UserFindOne(ToLowerCase(req[r].email)) # 0
       THEN Respond(r, req[r], JsonMessage(409, "Email already in use"), "emailInUse")
       ELSE Continue(r, [req[r] EXCEPT !.pc = "createUser"])
    /\ UNCHANGED <<users, records, now, nextToken, loggedOut, registered>>

\* a User collection without an index on email
DuplicateKeyNever(e) == FALSE

\* the unique index on the email of users refuses the insert of e
DuplicateKey(e) == UserFindOne(e) # 0

\* UserModel.create under the unique index on email, then createRefreshToken
\* and refreshTokenExpiresAt; a duplicate key rejects the handler's promise
\* and the request gets no response
RegisterCreateUser(r) ==
    /\ Quiet
    /\ req[r].kind = "register" /\ req[r].pc = "createUser"
    /\ IF DuplicateKey(ToLowerCase(req[r].email))
       THEN /\ Respond(r, req[r], NoResp, "duplicateKey")
            /\ UNCHANGED <<users, nextToken>>
       ELSE /\ users' = Append(users, [email |-> ToLowerCase(req[r].email),
                                       name |-> req[r].name,
                                       passwordHash |-> bcryptHash(req[r].password)])
            /\ nextToken' = nextToken + 1
            /\ Continue(r, [req[r] EXCEPT !.pc = "createToken",
                                          !.userId = Len(users) + 1,
                                          !.newToken = nextToken,
                                          !.expiresAt = refreshTokenExpiresAt(now)])
    /\ UNCHANGED <<records, now, loggedOut, registered>>

\* RefreshTokenModel.create, then the 201 response
RegisterCreateToken(r) ==
    /\ Quiet
    /\ req[r].kind = "register" /\ req[r].pc = "createToken"
    /\ records' = RefreshTokenCreate(req[r].userId, req[r].newToken, req[r].expiresAt, 0)
    /\ Respond(r, req[r], JsonSession(201, req[r].newToken, req[r].userId, now), "ok")
    /\ UNCHANGED <<users, now, nextToken, loggedOut>>
    /\ registered' = [email |-> req[r].email, password |-> req[r].password,
                      user |-> req[r].userId,
                      accessToken |-> createAccessToken(req[r].userId, now)]

(***************************************************************************)
(* POST /login                                                             *)
(***************************************************************************)
StartLogin(r, e, p) ==
    LET rec == [IdleReq EXCEPT !.kind = "login", !.pc = "findOne",
                               !.email = e, !.password = p,
                               !.afterRegister = registered] IN
    /\ CanStart(r)
    /\ IF e = "" \/ p = ""
       THEN Respond(r, rec, JsonMessage(400, "Missing credentials"), "missing")
       ELSE Continue(r, rec)
    /\ UNCHANGED <<users, records, now, nextToken, loggedOut>>
    /\ registered' = NoSession

\* a login that looks the user up by the email as it was typed
LoginFindOneCaseSensitive(r) ==
    LET u == UserFindOne(req[r].email) IN
    /\ Quiet
    /\ req[r].kind = "login" /\ req[r].pc = "findOne"
    /\ IF u = 0
       THEN /\ Respond(r, req[r], JsonMessage(401, "Invalid credentials"), "unknownEmail")
            /\ UNCHANGED nextToken
       ELSE IF ~bcryptCompare(req[r].password, users[u].passwordHash)
       THEN /\ Respond(r, req[r], JsonMessage(401, "Invalid credentials"), "wrongPassword")
            /\ UNCHANGED nextToken
       ELSE /\ nextToken' = nextToken + 1
            /\ Continue(r, [req[r] EXCEPT !.pc = "create", !.userId = u,
                                          !.newToken = nextToken,
                                          !.expiresAt = refreshTokenExpiresAt(now)])
    /\ UNCHANGED <<users, records, now, loggedOut, registered>>

\* a login that tells an unknown email from a wrong password
LoginFindOneLeaky(r) ==
    LET u == UserFindOne(ToLowerCase(req[r].email)) IN
    /\ Quiet
    /\ req[r].kind = "login" /\ req[r].pc = "findOne"
    /\ IF u = 0
       THEN /\ Respond(r, req[r], JsonMessage(404, "User not found"), "unknownEmail")
            /\ UNCHANGED nextToken
       ELSE IF ~bcryptCompare(req[r].password, users[u].passwordHash)
       THEN /\ Respond(r, req[r], JsonMessage(401, "Invalid credentials"), "wrongPassword")
            /\ UNCHANGED nextToken
       ELSE /\ nextToken' = nextToken + 1
            /\ Continue(r, [req[r] EXCEPT !.pc = "create", !.userId = u,
                                          !.newToken = nextToken,
                                          !.expiresAt = refreshTokenExpiresAt(now)])
    /\ UNCHANGED <<users, records, now, loggedOut, registered>>

\* UserModel.findOne, then bcrypt.compare, createRefreshToken and
\* refreshTokenExpiresAt
LoginFindOne(r) ==
    LET u == UserFindOne(ToLowerCase(req[r].email)) IN
    /\ Quiet
    /\ req[r].kind = "login" /\ req[r].pc = "findOne"
    /\ IF u = 0
       THEN /\ Respond(r, req[r], JsonMessage(401, "Invalid credentials"), "unknownEmail")
            /\ UNCHANGED nextToken
       ELSE IF ~bcryptCompare(req[r].password, users[u].passwordHash)
       THEN /\ Respond(r, req[r], JsonMessage(401, "Invalid credentials"), "wrongPassword")
            /\ UNCHANGED nextToken
       ELSE /\ nextToken' = nextToken + 1
            /\ Continue(r, [req[r] EXCEPT !.pc = "create", !.userId = u,
                                          !.newToken = nextToken,
                                          !.expiresAt = refreshTokenExpiresAt(now)])
    /\ UNCHANGED <<users, records, now, loggedOut, registered>>

\* a login that ends the user's other sessions
LoginCreateSingleSession(r) ==
    /\ Quiet
    /\ req[r].kind = "login" /\ req[r].pc = "create"
    /\ records' = Append([i \in 1..Len(records) |->
                            IF records[i].userId = req[r].userId
                            THEN [records[i] EXCEPT !.revokedAt = DateAt(now)]
                            ELSE records[i]],
                         [userId |-> req[r].userId,
                          tokenHash |-> hashToken(req[r].newToken),
                          expiresAt |-> req[r].expiresAt,
                          revokedAt |-> NullDate, rotatedFrom |-> 0])
    /\ Respond(r, req[r], JsonSession(200, req[r].newToken, req[r].userId, now), "ok")
    /\ UNCHANGED <<users, now, nextToken, loggedOut, registered>>

\* RefreshTokenModel.create, then the 200 response
LoginCreate(r) ==
    /\ Quiet
    /\ req[r].kind = "login" /\ req[r].pc = "create"
    /\ records' = RefreshTokenCreate(req[r].userId, req[r].newToken, req[r].expiresAt, 0)
    /\ Respond(r, req[r], JsonSession(200, req[r].newToken, req[r].userId, now), "ok")
    /\ UNCHANGED <<users, now, nextToken, loggedOut, registered>>

(***************************************************************************)
(* POST /refresh                                                           *)
(***************************************************************************)
\* a refresh of the token c may create a record: c has an unrevoked record
MayRotate(c) ==
    /\ RefreshTokenFindOne(hashToken(c)) # 0
    /\ records[RefreshTokenFindOne(hashToken(c))].revokedAt = NullDate

StartRefresh(r, c) ==
    LET rec == [IdleReq EXCEPT
                  !.kind = "refresh", !.pc = "findOne", !.cookie = c,
                  !.afterLogout = (c \in loggedOut),
                  !.usersBefore = users,
                  !.replayed = (\E i \in 1..Len(records) :
                                    records[i].rotatedFrom = hashToken(c))] IN
    /\ Admit(r)
    /\ MayRotate(c) => HasRoom
    /\ IF c = 0
       THEN Respond(r, rec, JsonMessage(401, "Missing refresh token"), "missing")
       ELSE Continue(r, rec)
    /\ UNCHANGED <<users, records, now, nextToken, loggedOut>>
    /\ registered' = NoSession

\* the check without `stored.revokedAt`
StoredRejectedIgnoringRevoked(stored, t) ==
    IF stored = 0 THEN "nomatch"
    ELSE IF records[stored].expiresAt < t THEN "expired"
    ELSE ""

\* the check without `stored.expiresAt < new Date()`
StoredRejectedIgnoringExpiry(stored, t) ==
    IF stored = 0 THEN "nomatch"
    ELSE IF records[stored].revokedAt # NullDate THEN "revoked"
    ELSE ""

\* why the handler rejects the document findOne returned, "" if it does not:
\* the check with a grace period of one tick after expiry
StoredRejectedWithGrace(stored, t) ==
    IF stored = 0 THEN "nomatch"
    ELSE IF records[stored].revokedAt # NullDate THEN "revoked"
    ELSE IF records[stored].expiresAt + 1 < t THEN "expired"
    ELSE ""

\* !stored || stored.revokedAt || stored.expiresAt < new Date()
StoredRejected(stored, t) ==
    IF stored = 0 THEN "nomatch"
    ELSE IF records[stored].revokedAt # NullDate THEN "revoked"
    ELSE IF records[stored].expiresAt < t THEN "expired"
    ELSE ""

\* a response that tells the caller why the document was rejected
StoredRejectedResponseByReason(reason) ==
    IF reason = "nomatch" THEN JsonMessage(401, "Refresh token invalid")
    ELSE IF reason = "revoked" THEN JsonMessage(401, "Refresh token revoked")
    ELSE JsonMessage(401, "Refresh token expired")

\* the response to a rejected document
StoredRejectedResponse(reason) == JsonMessage(401, "Refresh token invalid")

\* findOne and the validity check, revoking a document found expired
RefreshFindOneRevokingExpired(r) ==
    LET stored == RefreshTokenFindOne(hashToken(req[r].cookie))
        reason == StoredRejected(stored, now)
        rec == [req[r] EXCEPT !.pc = "findById", !.storedId = stored,
                              !.lookupAt = now,
                              !.snapshot = IF stored = 0 THEN NoDoc
                                           ELSE records[stored]] IN
    /\ Quiet
    /\ req[r].kind = "refresh" /\ req[r].pc = "findOne"
    /\ IF reason # ""
       THEN Respond(r, rec, StoredRejectedResponse(reason), reason)
       ELSE Continue(r, rec)
    /\ records' = IF reason = "expired"
                  THEN [records EXCEPT ![stored].revokedAt = DateAt(now)]
                  ELSE records
    /\ UNCHANGED <<users, now, nextToken, loggedOut, registered>>

\* RefreshTokenModel.findOne, then the validity check
RefreshFindOne(r) ==
    LET stored == RefreshTokenFindOne(hashToken(req[r].cookie))
        reason == StoredRejected(stored, now)
        rec == [req[r] EXCEPT !.pc = "findById", !.storedId = stored,
                              !.lookupAt = now,
                              !.snapshot = IF stored = 0 THEN NoDoc
                                           ELSE records[stored]] IN
    /\ Quiet
    /\ req[r].kind = "refresh" /\ req[r].pc = "findOne"
    /\ IF reason # ""
       THEN Respond(r, rec, StoredRejectedResponse(reason), reason)
       ELSE Continue(r, rec)
    /\ UNCHANGED <<users, records, now, nextToken, loggedOut, registered>>

\* UserModel.findById(stored.userId), then stored.revokedAt = new Date()
\* a handler that revokes the presented record when its user is missing
RefreshFindByIdRevoking(r) ==
    LET u == req[r].snapshot.userId IN
    /\ Quiet
    /\ req[r].kind = "refresh" /\ req[r].pc = "findById"
    /\ IF UserFindById(u) = 0
       THEN /\ records' = [records EXCEPT ![req[r].storedId].revokedAt = DateAt(now)]
            /\ Respond(r, req[r], JsonMessage(401, "User not found"), "noUser")
       ELSE /\ Continue(r, [req[r] EXCEPT !.pc = "save", !.userId = u,
                                          !.revokedAt = DateAt(now)])
            /\ UNCHANGED records
    /\ UNCHANGED <<users, now, nextToken, loggedOut, registered>>

RefreshFindById(r) ==
    LET u == req[r].snapshot.userId IN
    /\ Quiet
    /\ req[r].kind = "refresh" /\ req[r].pc = "findById"
    /\ IF UserFindById(u) = 0
       THEN Respond(r, req[r], JsonMessage(401, "User not found"), "noUser")
       ELSE Continue(r, [req[r] EXCEPT !.pc = "save", !.userId = u,
                                       !.revokedAt = DateAt(now)])
    /\ UNCHANGED <<users, records, now, nextToken, loggedOut, registered>>

\* a user document is removed from the collection by an operation on the
\* database; no route of the service deletes a user
DeleteUser(u) ==
    /\ Quiet
    /\ UserFindById(u) # 0
    /\ users' = [users EXCEPT ![u] = NoUser]
    /\ UNCHANGED <<records, now, nextToken, req, last, loggedOut, registered>>

\* stored.save() writes the modified path revokedAt of the document
StoredSave(id, date) == [records EXCEPT ![id].revokedAt = date]

\* stored.save(), then createRefreshToken and refreshTokenExpiresAt
RefreshSave(r) ==
    /\ Quiet
    /\ req[r].kind = "refresh" /\ req[r].pc = "save"
    /\ records' = StoredSave(req[r].storedId, req[r].revokedAt)
    /\ nextToken' = nextToken + 1
    /\ Continue(r, [req[r] EXCEPT !.pc = "create", !.newToken = nextToken,
                                  !.expiresAt = refreshTokenExpiresAt(now)])
    /\ UNCHANGED <<users, now, loggedOut, registered>>

\* the create with userId: stored._id in place of user._id
RefreshCreateForStoredId(r) ==
    /\ Quiet
    /\ req[r].kind = "refresh" /\ req[r].pc = "create"
    /\ records' = RefreshTokenCreate(req[r].storedId, req[r].newToken, req[r].expiresAt,
                                     hashToken(req[r].cookie))
    /\ Respond(r, req[r], JsonSession(200, req[r].newToken, req[r].userId, now), "ok")
    /\ UNCHANGED <<users, now, nextToken, loggedOut, registered>>

\* RefreshTokenModel.create, then the 200 response
RefreshCreate(r) ==
    /\ Quiet
    /\ req[r].kind = "refresh" /\ req[r].pc = "create"
    /\ records' = RefreshTokenCreate(req[r].userId, req[r].newToken, req[r].expiresAt,
                                     hashToken(req[r].cookie))
    /\ Respond(r, req[r], JsonSession(200, req[r].newToken, req[r].userId, now), "ok")
    /\ UNCHANGED <<users, now, nextToken, loggedOut, registered>>

(***************************************************************************)
(* POST /logout                                                            *)
(***************************************************************************)
\* a logout creates no record and is admitted whenever a slot is idle
StartLogout(r, c) ==
    LET rec == [IdleReq EXCEPT !.kind = "logout", !.pc = "updateOne", !.cookie = c,
                               !.afterLogout = (c \in loggedOut),
                               !.revokedAt = IF c = 0 THEN NullDate ELSE DateAt(now)] IN
    /\ Admit(r)
    /\ IF c = 0
       THEN Respond(r, rec, JsonOk, "missing")
       ELSE Continue(r, rec)
    /\ UNCHANGED <<users, records, now, nextToken, loggedOut>>
    /\ registered' = NoSession

\* the document updateOne({ tokenHash, revokedAt: null }, ...) matches, 0 if none
UpdateOneMatch(h) ==
    IF \E i \in 1..Len(records) :
          records[i].tokenHash = h /\ records[i].revokedAt = NullDate
    THEN CHOOSE i \in 1..Len(records) :
            /\ records[i].tokenHash = h /\ records[i].revokedAt = NullDate
            /\ \A j \in 1..(i - 1) :
                  ~(records[j].tokenHash = h /\ records[j].revokedAt = NullDate)
    ELSE 0

\* an update whose filter matches no document
RefreshTokenUpdateOneNoMatch(h, date) == records

\* an update filtered on tokenHash alone
RefreshTokenUpdateOneAnyState(h, date) ==
    IF RefreshTokenFindOne(h) = 0 THEN records
    ELSE [records EXCEPT ![RefreshTokenFindOne(h)].revokedAt = date]

\* an update of every unrevoked record of the user the token belongs to
RefreshTokenUpdateAllOfUser(h, date) ==
    IF UpdateOneMatch(h) = 0 THEN records
    ELSE [i \in 1..Len(records) |->
            IF /\ records[i].userId = records[UpdateOneMatch(h)].userId
               /\ records[i].revokedAt = NullDate
            THEN [records[i] EXCEPT !.revokedAt = date]
            ELSE records[i]]

\* a deleteOne with the same filter
RefreshTokenDeleteOne(h, date) ==
    IF UpdateOneMatch(h) = 0 THEN records
    ELSE SubSeq(records, 1, UpdateOneMatch(h) - 1)
            \o SubSeq(records, UpdateOneMatch(h) + 1, Len(records))

\* RefreshTokenModel.updateOne({ tokenHash, revokedAt: null }, { revokedAt })
RefreshTokenUpdateOne(h, date) ==
    IF UpdateOneMatch(h) = 0 THEN records
    ELSE [records EXCEPT ![UpdateOneMatch(h)].revokedAt = date]

\* updateOne, then clearCookie and the 200 response
LogoutUpdateOne(r) ==
    /\ Quiet
    /\ req[r].kind = "logout" /\ req[r].pc = "updateOne"
    /\ records' = RefreshTokenUpdateOne(hashToken(req[r].cookie), req[r].revokedAt)
    /\ Respond(r, req[r], JsonOk, "ok")
    /\ loggedOut' = loggedOut \cup {req[r].cookie}
    /\ UNCHANGED <<users, now, nextToken, registered>>

\* the client receives the response of the request that has just finished
Receive ==
    /\ ~Quiet
    /\ last' = IdleReq
    /\ UNCHANGED <<users, records, now, nextToken, req, loggedOut, registered>>


(***************************************************************************)
(* The realtime gateway (backend/src/socket.ts).  `io` is the module's     *)
(* server handle, `sockets` the connections by socket id, `rooms` the      *)
(* adapter's table of (room, socket id), `joining` the join_workspace      *)
(* handlers that await their membership lookup, `members` the Membership   *)
(* collection and `events` the events published so far.  `ack` is the      *)
(* join_workspace handler that has just returned, until its                *)
(* acknowledgement has reached the client.  The fields token, inbox and    *)
(* refused of a socket, `events` (each call of emitWorkspaceEvent with its *)
(* audience, the                                                           *)
(* sockets that were connected and in the room of its workspace when it    *)
(* was published) and the fields before and status of `ack` are history.   *)
(***************************************************************************)
ConnIds == 1..MaxConns
UserIds == {1, 2}
Workspaces == {"w1", "w2"}

\* what a client may send as workspaceId: a workspace, nothing, or an id of
\* no workspace
WorkspaceIds == Workspaces \cup {"", "zz"}

\* the memberships the workspace routes may create and delete
MemberPairs == {<<"w1", 1>>, <<"w2", 1>>, <<"w2", 2>>}

\* socket.handshake.auth.token: absent, not a string, or a string that is a
\* token with or without the signature of jwtSecret; sub = 0 is a payload
\* without sub, exp = 0 a token that has expired
NoAuthToken == [given |-> FALSE, string |-> FALSE, signed |-> FALSE, sub |-> 0, exp |-> 0]
HandshakeTokens ==
    {NoAuthToken, [NoAuthToken EXCEPT !.given = TRUE]}
    \cup {[given |-> TRUE, string |-> TRUE, signed |-> FALSE, sub |-> 1,
            exp |-> MaxTime + 1]}
    \cup {[given |-> TRUE, string |-> TRUE, signed |-> TRUE, sub |-> u, exp |-> e] :
            u \in {0} \cup UserIds, e \in {0, MaxTime + 1}}

\* `workspace:${workspaceId}`
workspaceRoom(workspaceId) == <<"workspace", workspaceId>>

\* jwt.verify(token, jwtSecret) throws
JwtVerifyThrows(token, t) == ~token.signed \/ token.exp <= t

NoSocket == [status |-> "none", userId |-> 0, token |-> NoAuthToken,
             inbox |-> <<>>, refused |-> FALSE]
NoAck == [pc |-> "idle", conn |-> 0, workspaceId |-> "", given |-> FALSE,
          ok |-> FALSE, message |-> "", before |-> {}, status |-> "none",
          userId |-> 0]

\* no acknowledgement is on its way to a client
GatewayQuiet == ack.pc = "idle"

\* the rooms of workspaces the socket c is in
RoomsOf(c) == {w \in WorkspaceIds : <<workspaceRoom(w), c>> \in rooms}

\* export const initSocket
InitSocket ==
    /\ ~io
    /\ io' = TRUE
    /\ UNCHANGED <<sockets, rooms, joining, ack, members, events>>

\* a middleware without the check of payload.sub
HandshakeRejectedWithoutSub(token, t) ==
    \/ ~token.given \/ ~token.string
    \/ JwtVerifyThrows(token, t)

\* the handshake middleware refuses the token (next(new Error("Unauthorized")))
HandshakeRejected(token, t) ==
    \/ ~token.given \/ ~token.string
    \/ JwtVerifyThrows(token, t)
    \/ token.sub = 0

\* a middleware that lets the token through without binding its subject
ConnectWithoutBinding(c, token) ==
    /\ GatewayQuiet
    /\ io
    /\ sockets[c].status = "none"
    /\ \A d \in 1..(c - 1) : sockets[d].status # "none"
    /\ sockets' = [sockets EXCEPT ![c] =
            IF HandshakeRejected(token, now)
            THEN [@ EXCEPT !.status = "rejected", !.token = token]
            ELSE [@ EXCEPT !.status = "open", !.token = token]]
    /\ UNCHANGED <<io, rooms, joining, ack, members, events>>

\* a client connects with socket id c: the middleware of io.use, then the
\* connection handler, which registers the join_workspace listener
Connect(c, token) ==
    /\ GatewayQuiet
    /\ io
    /\ sockets[c].status = "none"
    /\ \A d \in 1..(c - 1) : sockets[d].status # "none"
    /\ sockets' = [sockets EXCEPT ![c] =
            IF HandshakeRejected(token, now)
            THEN [@ EXCEPT !.status = "rejected", !.token = token]
            ELSE [@ EXCEPT !.status = "open", !.userId = token.sub,
                           !.token = token]]
    /\ UNCHANGED <<io, rooms, joining, ack, members, events>>

\* the handler of join_workspace returns: ack?.(payload); userId is the
\* user its membership lookup was made for, 0 if it made none
Acknowledge(j, isOk, msg, userId) ==
    ack' = [pc |-> "done", conn |-> j.conn, workspaceId |-> j.workspaceId,
            given |-> j.ack, ok |-> isOk, message |-> msg,
            before |-> RoomsOf(j.conn), status |-> sockets[j.conn].status,
            userId |-> userId]

\* the client of socket c emits join_workspace, with or without a callback
JoinWorkspace(c, workspaceId, hasAck) ==
    LET j == [conn |-> c, workspaceId |-> workspaceId, ack |-> hasAck] IN
    /\ GatewayQuiet
    /\ sockets[c].status = "open"
    /\ Cardinality({k \in joining : k.conn = c}) < MaxJoining
    /\ IF workspaceId = ""
       THEN /\ Acknowledge(j, FALSE, "Workspace required", 0)
            /\ sockets' = [sockets EXCEPT ![c].refused = TRUE]
            /\ UNCHANGED joining
       ELSE /\ joining' = joining \cup {j}
            /\ UNCHANGED <<ack, sockets>>
    /\ UNCHANGED <<io, rooms, members, events>>

\* a lookup by workspaceId alone
MembershipFindOneOfAnyUser(workspaceId, userId) ==
    \E u \in UserIds : <<workspaceId, u>> \in members

\* MembershipModel.findOne({ workspaceId, userId }) finds a document
MembershipFindOne(workspaceId, userId) == <<workspaceId, userId>> \in members

\* socket.join(room): the adapter adds the socket id to the room, whether
\* or not the socket is still connected
SocketJoin(c, room) == rooms \cup {<<room, c>>}

\* a handler that acknowledges a member without socket.join
JoinFindOneWithoutJoin(j) ==
    /\ GatewayQuiet
    /\ j \in joining
    /\ joining' = joining \ {j}
    /\ IF ~MembershipFindOne(j.workspaceId, sockets[j.conn].userId)
       THEN /\ Acknowledge(j, FALSE, "Forbidden", sockets[j.conn].userId)
            /\ sockets' = [sockets EXCEPT ![j.conn].refused = TRUE]
       ELSE /\ Acknowledge(j, TRUE, "", sockets[j.conn].userId)
            /\ UNCHANGED sockets
    /\ UNCHANGED <<io, rooms, members, events>>

\* a handler that disconnects the socket it refuses
JoinFindOneClosing(j) ==
    /\ GatewayQuiet
    /\ j \in joining
    /\ joining' = joining \ {j}
    /\ IF ~MembershipFindOne(j.workspaceId, sockets[j.conn].userId)
       THEN /\ Acknowledge(j, FALSE, "Forbidden", sockets[j.conn].userId)
            /\ sockets' = [sockets EXCEPT ![j.conn].refused = TRUE,
                                          ![j.conn].status = "closed"]
            /\ rooms' = {m \in rooms : m[2] # j.conn}
       ELSE /\ rooms' = SocketJoin(j.conn, workspaceRoom(j.workspaceId))
            /\ Acknowledge(j, TRUE, "", sockets[j.conn].userId)
            /\ UNCHANGED sockets
    /\ UNCHANGED <<io, members, events>>

\* a handler that sends the events published so far to the socket that joins
JoinFindOneReplaying(j) ==
    /\ GatewayQuiet
    /\ j \in joining
    /\ joining' = joining \ {j}
    /\ IF ~MembershipFindOne(j.workspaceId, sockets[j.conn].userId)
       THEN /\ Acknowledge(j, FALSE, "Forbidden", sockets[j.conn].userId)
            /\ sockets' = [sockets EXCEPT ![j.conn].refused = TRUE]
            /\ UNCHANGED rooms
       ELSE /\ rooms' = SocketJoin(j.conn, workspaceRoom(j.workspaceId))
            /\ Acknowledge(j, TRUE, "", sockets[j.conn].userId)
            /\ sockets' = [sockets EXCEPT ![j.conn].inbox =
                    @ \o SelectSeq([k \in 1..Len(events) |-> k],
                                   LAMBDA k : events[k].workspaceId = j.workspaceId)]
    /\ UNCHANGED <<io, members, events>>

\* a handler that takes the socket it refuses out of the workspace's room
JoinFindOneLeaving(j) ==
    /\ GatewayQuiet
    /\ j \in joining
    /\ joining' = joining \ {j}
    /\ IF ~MembershipFindOne(j.workspaceId, sockets[j.conn].userId)
       THEN /\ Acknowledge(j, FALSE, "Forbidden", sockets[j.conn].userId)
            /\ sockets' = [sockets EXCEPT ![j.conn].refused = TRUE]
            /\ rooms' = rooms \ {<<workspaceRoom(j.workspaceId), j.conn>>}
       ELSE /\ rooms' = SocketJoin(j.conn, workspaceRoom(j.workspaceId))
            /\ Acknowledge(j, TRUE, "", sockets[j.conn].userId)
            /\ UNCHANGED sockets
    /\ UNCHANGED <<io, members, events>>

\* a handler that verifies the socket's token again before it joins
JoinFindOneVerifying(j) ==
    /\ GatewayQuiet
    /\ j \in joining
    /\ joining' = joining \ {j}
    /\ IF \/ ~MembershipFindOne(j.workspaceId, sockets[j.conn].userId)
          \/ JwtVerifyThrows(sockets[j.conn].token, now)
       THEN /\ Acknowledge(j, FALSE, "Forbidden", sockets[j.conn].userId)
            /\ sockets' = [sockets EXCEPT ![j.conn].refused = TRUE]
            /\ UNCHANGED rooms
       ELSE /\ rooms' = SocketJoin(j.conn, workspaceRoom(j.workspaceId))
            /\ Acknowledge(j, TRUE, "", sockets[j.conn].userId)
            /\ UNCHANGED sockets
    /\ UNCHANGED <<io, members, events>>

\* a handler whose join of a room the socket is already in leaves the room
JoinFindOneToggling(j) ==
    /\ GatewayQuiet
    /\ j \in joining
    /\ joining' = joining \ {j}
    /\ IF ~MembershipFindOne(j.workspaceId, sockets[j.conn].userId)
       THEN /\ Acknowledge(j, FALSE, "Forbidden", sockets[j.conn].userId)
            /\ sockets' = [sockets EXCEPT ![j.conn].refused = TRUE]
            /\ UNCHANGED rooms
       ELSE /\ rooms' = IF <<workspaceRoom(j.workspaceId), j.conn>> \in rooms
                        THEN rooms \ {<<workspaceRoom(j.workspaceId), j.conn>>}
                        ELSE SocketJoin(j.conn, workspaceRoom(j.workspaceId))
            /\ Acknowledge(j, TRUE, "", sockets[j.conn].userId)
            /\ UNCHANGED sockets
    /\ UNCHANGED <<io, members, events>>

\* the membership lookup of a join_workspace returns and the handler goes
\* on to its end
JoinFindOne(j) ==
    /\ GatewayQuiet
    /\ j \in joining
    /\ joining' = joining \ {j}
    /\ IF ~MembershipFindOne(j.workspaceId, sockets[j.conn].userId)
       THEN /\ Acknowledge(j, FALSE, "Forbidden", sockets[j.conn].userId)
            /\ sockets' = [sockets EXCEPT ![j.conn].refused = TRUE]
            /\ UNCHANGED rooms
       ELSE /\ rooms' = SocketJoin(j.conn, workspaceRoom(j.workspaceId))
            /\ Acknowledge(j, TRUE, "", sockets[j.conn].userId)
            /\ UNCHANGED sockets
    /\ UNCHANGED <<io, members, events>>

\* the acknowledgement reaches the client, or is dropped with the handler's
\* return when there is no callback or no connection any more
ReceiveAck ==
    /\ ~GatewayQuiet
    /\ ack' = NoAck
    /\ UNCHANGED <<io, sockets, rooms, joining, members, events>>

\* the connection of socket c ends: socket.io takes the socket out of all
\* its rooms and out of the namespace
Disconnect(c) ==
    /\ GatewayQuiet
    /\ sockets[c].status = "open"
    /\ sockets' = [sockets EXCEPT ![c].status = "closed"]
    /\ rooms' = {m \in rooms : m[2] # c}
    /\ UNCHANGED <<io, joining, ack, members, events>>

\* io.emit: every connected socket
ReceiversOfAllRooms(room) == {c \in ConnIds : sockets[c].status = "open"}

\* the sockets io.to(room).emit reaches: those of the room that are connected
Receivers(room) == {c \in ConnIds : <<room, c>> \in rooms /\ sockets[c].status = "open"}

\* the users who hold a valid refresh record
SignedIn ==
    {records[i].userId : i \in {k \in 1..Len(records) : Valid(records[k], now)}}

\* the call recorded in the history of events, with its audience, the time,
\* the users signed in and the socket and workspace of the client at the call
Published(workspaceId) ==
    Append(events, [workspaceId |-> workspaceId,
                    audience |-> {c \in ConnIds :
                                    /\ sockets[c].status = "open"
                                    /\ workspaceId \in RoomsOf(c)},
                    signedIn |-> SignedIn, at |-> now,
                    client |-> [socket |-> hook.socket,
                                workspaceId |-> hook.workspaceId]])

\* an emit that clears the room of the sockets that are no longer connected
emitWorkspaceEventPruning(workspaceId) ==
    /\ GatewayQuiet
    /\ Len(events) < MaxEvents
    /\ events' = Published(workspaceId)
    /\ IF ~io
       THEN UNCHANGED <<sockets, rooms>>
       ELSE /\ sockets' = [c \in ConnIds |->
                    IF c \in Receivers(workspaceRoom(workspaceId))
                    THEN [sockets[c] EXCEPT !.inbox = Append(@, Len(events) + 1)]
                    ELSE sockets[c]]
            /\ rooms' = {m \in rooms : m[1] # workspaceRoom(workspaceId)
                                        \/ sockets[m[2]].status = "open"}
    /\ UNCHANGED <<io, joining, ack, members>>

\* export const emitWorkspaceEvent
emitWorkspaceEvent(workspaceId) ==
    /\ GatewayQuiet
    /\ Len(events) < MaxEvents
    /\ events' = Published(workspaceId)
    /\ IF ~io
       THEN UNCHANGED sockets
       ELSE sockets' = [c \in ConnIds |->
                    IF c \in Receivers(workspaceRoom(workspaceId))
                    THEN [sockets[c] EXCEPT !.inbox = Append(@, Len(events) + 1)]
                    ELSE sockets[c]]
    /\ UNCHANGED <<io, rooms, joining, ack, members>>

\* the workspace routes create and delete memberships
AddMembership(workspaceId, userId) ==
    /\ GatewayQuiet
    /\ <<workspaceId, userId>> \notin members
    /\ members' = members \cup {<<workspaceId, userId>>}
    /\ UNCHANGED <<io, sockets, rooms, joining, ack, events>>

RemoveMembership(workspaceId, userId) ==
    /\ GatewayQuiet
    /\ <<workspaceId, userId>> \in members
    /\ members' = members \ {<<workspaceId, userId>>}
    /\ UNCHANGED <<io, sockets, rooms, joining, ack, events>>

\* access assertions of user 1 that expire while the gateway runs
ExpiringTokens ==
    {[given |-> TRUE, string |-> TRUE, signed |-> TRUE, sub |-> 1, exp |-> e] :
        e \in 1..MaxTime}

\* the clock of the gateway's process advances
GatewayTick ==
    /\ GatewayQuiet
    /\ now < MaxTime
    /\ now' = now + 1
    /\ UNCHANGED <<session, gateway, client>>

\* the access assertion of user u as a client presents it at the handshake
AccessAssertion(u) ==
    [given |-> TRUE, string |-> TRUE, signed |-> TRUE, sub |-> u, exp |-> MaxTime + 1]

\* a logout route that also disconnects the sockets of the token's user
LogoutRouteDisconnecting(r) ==
    LET m == UpdateOneMatch(hashToken(req[r].cookie))
        gone == {c \in ConnIds : m # 0 /\ sockets[c].userId = records[m].userId
                                         /\ sockets[c].status = "open"} IN
    /\ LogoutUpdateOne(r)
    /\ sockets' = [c \in ConnIds |->
            IF c \in gone THEN [sockets[c] EXCEPT !.status = "closed"] ELSE sockets[c]]
    /\ rooms' = {x \in rooms : x[2] \notin gone}
    /\ UNCHANGED <<io, joining, ack, members, events>>

\* the last step of router.post("/logout") in the process that also runs the
\* gateway: the route calls nothing of socket.ts
LogoutRoute(r) == LogoutUpdateOne(r) /\ UNCHANGED gateway

(***************************************************************************)
(* The client hook useWorkspaceSocket: the stores it reads, the module's    *)
(* `socket`, and its two effects.  accessToken 0 and workspaceId "" are     *)
(* null.  tokenDep and workspaceDep are the dependencies the effects last   *)
(* ran with, cleanup1 and cleanup2 whether their last run returned a        *)
(* cleanup.  made, closed, emitted, pending and handlers record what the    *)
(* hook did to the sockets it created: io(), disconnect(), emit of          *)
(* join_workspace (all, and those not yet sent), and on/off of the event    *)
(* handlers.                                                                *)
(***************************************************************************)
AccessTokens == {0, 1, 2}
Selections == {""} \cup Workspaces

\* the hook mounted while no user is signed in and no workspace is selected:
\* both effects have returned at their first check
InitClient ==
    hook = [accessToken |-> 0, workspaceId |-> "", socket |-> 0,
            tokenDep |-> 0, workspaceDep |-> "",
            cleanup1 |-> FALSE, cleanup2 |-> FALSE,
            made |-> {}, closed |-> {}, emitted |-> {}, pending |-> {},
            handlers |-> {}]

\* io(url, { auth }): the socket id the next connection of the client gets
NewSocket ==
    IF \E c \in ConnIds : c \notin hook.made /\ sockets[c].status = "none"
    THEN CHOOSE c \in ConnIds :
            /\ c \notin hook.made /\ sockets[c].status = "none"
            /\ \A d \in 1..(c - 1) : d \in hook.made \/ sockets[d].status # "none"
    ELSE 0

\* socket?.disconnect() on the module's socket
SocketDisconnect(h) ==
    IF h.socket = 0 THEN h ELSE [h EXCEPT !.closed = @ \cup {h.socket}]

\* the cleanup of the first effect: socket?.disconnect(); socket = null
Cleanup1(h) == [SocketDisconnect(h) EXCEPT !.socket = 0]

\* the cleanup of the second effect: socket?.off(...) on the module's socket
Cleanup2(h) == [h EXCEPT !.handlers = @ \ {h.socket}]

\* the first effect, run for the access token t
Effect1(h, t) ==
    IF t = 0
    THEN [h EXCEPT !.tokenDep = t, !.cleanup1 = FALSE]
    ELSE [SocketDisconnect(h) EXCEPT !.tokenDep = t, !.cleanup1 = TRUE,
                                     !.socket = NewSocket,
                                     !.made = @ \cup {NewSocket}]

\* the second effect, run for the workspace w
Effect2(h, w) ==
    IF h.socket = 0 \/ w = ""
    THEN [h EXCEPT !.workspaceDep = w, !.cleanup2 = FALSE]
    ELSE [h EXCEPT !.workspaceDep = w, !.cleanup2 = TRUE,
                   !.emitted = @ \cup {<<h.socket, w>>},
                   !.pending = @ \cup {<<h.socket, w>>},
                   !.handlers = @ \cup {h.socket}]

\* the stores change to (t, w) and the component renders again: React runs
\* the cleanups of the effects whose dependencies changed, then those
\* effects, in the order of the hook; the connection of a socket the hook
\* disconnects ends at once, also when its handshake had not been made
Commit(t, w) ==
    LET changed1 == t # hook.tokenDep
        changed2 == w # hook.workspaceDep
        h0 == [hook EXCEPT !.accessToken = t, !.workspaceId = w]
        h1 == IF changed1 /\ hook.cleanup1 THEN Cleanup1(h0) ELSE h0
        h2 == IF changed2 /\ hook.cleanup2 THEN Cleanup2(h1) ELSE h1
        h3 == IF changed1 THEN Effect1(h2, t) ELSE h2
        h4 == IF changed2 THEN Effect2(h3, w) ELSE h3 IN
    /\ GatewayQuiet
    /\ t # hook.accessToken \/ w # hook.workspaceId
    /\ (t # 0 /\ changed1) => NewSocket # 0
    /\ hook' = h4
    /\ sockets' = [c \in ConnIds |->
            IF c \in h4.closed /\ sockets[c].status \in {"none", "open"}
            THEN [sockets[c] EXCEPT !.status = "closed"]
            ELSE sockets[c]]
    /\ rooms' = {m \in rooms : m[2] \notin h4.closed}
    /\ UNCHANGED <<now, session, io, joining, ack, members, events>>

\* the handshake of a socket the client created reaches the gateway
ClientConnect(c) ==
    /\ c \in hook.made
    /\ Connect(c, AccessAssertion(1))
    /\ UNCHANGED <<now, session, client>>

\* a join_workspace the hook emitted is sent once its socket is connected
ClientJoin(c, w) ==
    /\ <<c, w>> \in hook.pending
    /\ JoinWorkspace(c, w, TRUE)
    /\ hook' = [hook EXCEPT !.pending = @ \ {<<c, w>>}]
    /\ UNCHANGED <<now, session>>

(***************************************************************************)
(* The system.                                                             *)
(***************************************************************************)
\* the module as loaded: `let io = null`, no connection, no membership
InitGateway ==
    /\ io = FALSE
    /\ sockets = [c \in ConnIds |-> NoSocket]
    /\ rooms = {}
    /\ joining = {}
    /\ ack = NoAck
    /\ members = {}
    /\ events = <<>>

Init == InitSession /\ InitGateway /\ InitClient

\* no request is in flight
AllIdle == \A r \in Slots : ~Busy(r)

\* the service with its clock, handling one request at a time
Next ==
    \/ Tick /\ UNCHANGED <<gateway, client>>
    \/ \E r \in Slots, e \in Emails, n \in Names, p \in RegisterPasswords :
          AllIdle /\ StartRegister(r, e, n, p) /\ UNCHANGED <<gateway, client>>
    \/ \E r \in Slots : RegisterFindOne(r) /\ UNCHANGED <<gateway, client>>
    \/ \E r \in Slots : RegisterCreateUser(r) /\ UNCHANGED <<gateway, client>>
    \/ \E r \in Slots : RegisterCreateToken(r) /\ UNCHANGED <<gateway, client>>
    \/ \E r \in Slots, e \in Emails, p \in LoginPasswords :
          AllIdle /\ StartLogin(r, e, p) /\ UNCHANGED <<gateway, client>>
    \/ \E r \in Slots : LoginFindOne(r) /\ UNCHANGED <<gateway, client>>
    \/ \E r \in Slots : LoginCreate(r) /\ UNCHANGED <<gateway, client>>
    \/ \E r \in Slots, c \in Cookies : AllIdle /\ StartRefresh(r, c) /\ UNCHANGED <<gateway, client>>
    \/ \E r \in Slots : RefreshFindOne(r) /\ UNCHANGED <<gateway, client>>
    \/ \E r \in Slots : RefreshFindById(r) /\ UNCHANGED <<gateway, client>>
    \/ \E r \in Slots : RefreshSave(r) /\ UNCHANGED <<gateway, client>>
    \/ \E r \in Slots : RefreshCreate(r) /\ UNCHANGED <<gateway, client>>
    \/ \E r \in Slots, c \in Cookies : AllIdle /\ StartLogout(r, c) /\ UNCHANGED <<gateway, client>>
    \/ \E r \in Slots : LogoutUpdateOne(r) /\ UNCHANGED <<gateway, client>>
    \/ Receive /\ UNCHANGED <<gateway, client>>

Spec == Init /\ [][Next]_vars

\* the service handling up to MaxSlots requests at once, their steps
\* interleaved at every await, within one instant of the clock
NextRace ==
    \/ \E r \in Slots, e \in RaceEmails, n \in Names, p \in RegisterPasswords :
          StartRegister(r, e, n, p) /\ UNCHANGED <<gateway, client>>
    \/ \E r \in Slots : RegisterFindOne(r) /\ UNCHANGED <<gateway, client>>
    \/ \E r \in Slots : RegisterCreateUser(r) /\ UNCHANGED <<gateway, client>>
    \/ \E r \in Slots : RegisterCreateToken(r) /\ UNCHANGED <<gateway, client>>
    \/ \E r \in Slots, e \in RaceEmails, p \in LoginPasswords : StartLogin(r, e, p) /\ UNCHANGED <<gateway, client>>
    \/ \E r \in Slots : LoginFindOne(r) /\ UNCHANGED <<gateway, client>>
    \/ \E r \in Slots : LoginCreate(r) /\ UNCHANGED <<gateway, client>>
    \/ \E r \in Slots, c \in Cookies : StartRefresh(r, c) /\ UNCHANGED <<gateway, client>>
    \/ \E r \in Slots : RefreshFindOne(r) /\ UNCHANGED <<gateway, client>>
    \/ \E r \in Slots : RefreshFindById(r) /\ UNCHANGED <<gateway, client>>
    \/ \E r \in Slots : RefreshSave(r) /\ UNCHANGED <<gateway, client>>
    \/ \E r \in Slots : RefreshCreate(r) /\ UNCHANGED <<gateway, client>>
    \/ \E r \in Slots, c \in Cookies : StartLogout(r, c) /\ UNCHANGED <<gateway, client>>
    \/ \E r \in Slots : LogoutUpdateOne(r) /\ UNCHANGED <<gateway, client>>
    \/ Receive /\ UNCHANGED <<gateway, client>>

SpecRace == Init /\ [][NextRace]_vars

\* one user's refreshes and logouts, up to MaxSlots at once, their steps
\* interleaved at every await while the clock advances
NextRevoke ==
    \/ Tick /\ UNCHANGED <<gateway, client>>
    \/ \E r \in Slots : AllIdle /\ StartRegister(r, "a@x", "n", "p") /\ UNCHANGED <<gateway, client>>
    \/ \E r \in Slots : RegisterFindOne(r) /\ UNCHANGED <<gateway, client>>
    \/ \E r \in Slots : RegisterCreateUser(r) /\ UNCHANGED <<gateway, client>>
    \/ \E r \in Slots : RegisterCreateToken(r) /\ UNCHANGED <<gateway, client>>
    \/ \E r \in Slots, c \in Cookies : StartRefresh(r, c) /\ UNCHANGED <<gateway, client>>
    \/ \E r \in Slots : RefreshFindOne(r) /\ UNCHANGED <<gateway, client>>
    \/ \E r \in Slots : RefreshFindById(r) /\ UNCHANGED <<gateway, client>>
    \/ \E r \in Slots : RefreshSave(r) /\ UNCHANGED <<gateway, client>>
    \/ \E r \in Slots : RefreshCreate(r) /\ UNCHANGED <<gateway, client>>
    \/ \E r \in Slots, c \in Cookies : StartLogout(r, c) /\ UNCHANGED <<gateway, client>>
    \/ \E r \in Slots : LogoutUpdateOne(r) /\ UNCHANGED <<gateway, client>>
    \/ Receive /\ UNCHANGED <<gateway, client>>

SpecRevoke == Init /\ [][NextRevoke]_vars

\* registration and refresh, one request at a time, with the clock, while
\* user documents may be removed from the database at any step
NextOrphan ==
    \/ Tick /\ UNCHANGED <<gateway, client>>
    \/ \E r \in Slots, e \in RaceEmails :
          AllIdle /\ StartRegister(r, e, "n", "p") /\ UNCHANGED <<gateway, client>>
    \/ \E r \in Slots : RegisterFindOne(r) /\ UNCHANGED <<gateway, client>>
    \/ \E r \in Slots : RegisterCreateUser(r) /\ UNCHANGED <<gateway, client>>
    \/ \E r \in Slots : RegisterCreateToken(r) /\ UNCHANGED <<gateway, client>>
    \/ \E r \in Slots, c \in Cookies : AllIdle /\ StartRefresh(r, c) /\ UNCHANGED <<gateway, client>>
    \/ \E r \in Slots : RefreshFindOne(r) /\ UNCHANGED <<gateway, client>>
    \/ \E r \in Slots : RefreshFindById(r) /\ UNCHANGED <<gateway, client>>
    \/ \E r \in Slots : RefreshSave(r) /\ UNCHANGED <<gateway, client>>
    \/ \E r \in Slots : RefreshCreate(r) /\ UNCHANGED <<gateway, client>>
    \/ \E u \in 1..Len(users) : DeleteUser(u) /\ UNCHANGED <<gateway, client>>
    \/ Receive /\ UNCHANGED <<gateway, client>>

SpecOrphan == Init /\ [][NextOrphan]_vars

\* the gateway: connections, joins whose lookups interleave with everything
\* else, disconnects, publishes and membership changes, within one instant
\* of the clock
NextGateway ==
    \/ InitSocket /\ UNCHANGED <<now, session, client>>
    \/ \E c \in ConnIds, token \in HandshakeTokens :
          Connect(c, token) /\ UNCHANGED <<now, session, client>>
    \/ \E c \in ConnIds, w \in WorkspaceIds, hasAck \in BOOLEAN :
          JoinWorkspace(c, w, hasAck) /\ UNCHANGED <<now, session, client>>
    \/ \E j \in joining : JoinFindOne(j) /\ UNCHANGED <<now, session, client>>
    \/ ReceiveAck /\ UNCHANGED <<now, session, client>>
    \/ \E c \in ConnIds : Disconnect(c) /\ UNCHANGED <<now, session, client>>
    \/ \E w \in Workspaces : emitWorkspaceEvent(w) /\ UNCHANGED <<now, session, client>>
    \/ \E m \in MemberPairs : AddMembership(m[1], m[2]) /\ UNCHANGED <<now, session, client>>
    \/ \E m \in MemberPairs : RemoveMembership(m[1], m[2]) /\ UNCHANGED <<now, session, client>>

SpecGateway == Init /\ [][NextGateway]_vars

\* the session routes, one request at a time, and the gateway in one
\* process: one user, one socket, one workspace
NextLive ==
    \/ \E r \in Slots : AllIdle /\ StartRegister(r, "a@x", "n", "p") /\ UNCHANGED <<gateway, client>>
    \/ \E r \in Slots : RegisterFindOne(r) /\ UNCHANGED <<gateway, client>>
    \/ \E r \in Slots : RegisterCreateUser(r) /\ UNCHANGED <<gateway, client>>
    \/ \E r \in Slots : RegisterCreateToken(r) /\ UNCHANGED <<gateway, client>>
    \/ \E r \in Slots, c \in Cookies : AllIdle /\ StartRefresh(r, c) /\ UNCHANGED <<gateway, client>>
    \/ \E r \in Slots : RefreshFindOne(r) /\ UNCHANGED <<gateway, client>>
    \/ \E r \in Slots : RefreshFindById(r) /\ UNCHANGED <<gateway, client>>
    \/ \E r \in Slots : RefreshSave(r) /\ UNCHANGED <<gateway, client>>
    \/ \E r \in Slots : RefreshCreate(r) /\ UNCHANGED <<gateway, client>>
    \/ \E r \in Slots, c \in Cookies : AllIdle /\ StartLogout(r, c) /\ UNCHANGED <<gateway, client>>
    \/ \E r \in Slots : LogoutRoute(r) /\ UNCHANGED client
    \/ Receive /\ UNCHANGED <<gateway, client>>
    \/ InitSocket /\ UNCHANGED <<now, session, client>>
    \/ \E u \in 1..Len(users) : Connect(1, AccessAssertion(u)) /\ UNCHANGED <<now, session, client>>
    \/ JoinWorkspace(1, "w1", TRUE) /\ UNCHANGED <<now, session, client>>
    \/ \E j \in joining : JoinFindOne(j) /\ UNCHANGED <<now, session, client>>
    \/ ReceiveAck /\ UNCHANGED <<now, session, client>>
    \/ Disconnect(1) /\ UNCHANGED <<now, session, client>>
    \/ emitWorkspaceEvent("w1") /\ UNCHANGED <<now, session, client>>
    \/ AddMembership("w1", 1) /\ UNCHANGED <<now, session, client>>

SpecLive == Init /\ [][NextLive]_vars

\* the gateway with its clock, the sockets connecting with assertions that
\* expire
NextExpiry ==
    \/ GatewayTick
    \/ InitSocket /\ UNCHANGED <<now, session, client>>
    \/ \E c \in ConnIds, token \in ExpiringTokens :
          Connect(c, token) /\ UNCHANGED <<now, session, client>>
    \/ \E c \in ConnIds, w \in Workspaces :
          JoinWorkspace(c, w, TRUE) /\ UNCHANGED <<now, session, client>>
    \/ \E j \in joining : JoinFindOne(j) /\ UNCHANGED <<now, session, client>>
    \/ ReceiveAck /\ UNCHANGED <<now, session, client>>
    \/ \E c \in ConnIds : Disconnect(c) /\ UNCHANGED <<now, session, client>>
    \/ \E w \in Workspaces : emitWorkspaceEvent(w) /\ UNCHANGED <<now, session, client>>
    \/ \E w \in Workspaces : AddMembership(w, 1) /\ UNCHANGED <<now, session, client>>
    \/ \E w \in Workspaces : RemoveMembership(w, 1) /\ UNCHANGED <<now, session, client>>

SpecExpiry == Init /\ [][NextExpiry]_vars

\* the client hook of one user, whose access token is replaced and whose
\* workspace is selected in any order, and the gateway its sockets join
NextHook ==
    \/ \E t \in AccessTokens, w \in Selections : Commit(t, w)
    \/ \E c \in ConnIds : ClientConnect(c)
    \/ \E c \in ConnIds, w \in Workspaces : ClientJoin(c, w)
    \/ InitSocket /\ UNCHANGED <<now, session, client>>
    \/ \E j \in joining : JoinFindOne(j) /\ UNCHANGED <<now, session, client>>
    \/ ReceiveAck /\ UNCHANGED <<now, session, client>>
    \/ \E w \in Workspaces : AddMembership(w, 1) /\ UNCHANGED <<now, session, client>>

SpecHook == Init /\ [][NextHook]_vars

\* the client hook of one user who signs in once and selects workspaces,
\* the gateway, and the events published to the workspaces
NextSwitch ==
    \/ \E w \in Selections : Commit(1, w)
    \/ ClientConnect(1)
    \/ \E w \in Workspaces : ClientJoin(1, w)
    \/ InitSocket /\ UNCHANGED <<now, session, client>>
    \/ \E j \in joining : JoinFindOne(j) /\ UNCHANGED <<now, session, client>>
    \/ ReceiveAck /\ UNCHANGED <<now, session, client>>
    \/ \E w \in Workspaces : emitWorkspaceEvent(w) /\ UNCHANGED <<now, session, client>>
    \/ \E w \in Workspaces : AddMembership(w, 1) /\ UNCHANGED <<now, session, client>>

SpecSwitch == Init /\ [][NextSwitch]_vars

TypeOK ==
    /\ now \in 0..MaxTime
    /\ Len(records) <= MaxRecords
    /\ \A r \in Slots : req[r].pc \in {"idle", "findOne", "createUser", "createToken",
                                       "create", "findById", "save", "updateOne"}
    /\ io \in BOOLEAN
    /\ \A c \in ConnIds :
          /\ sockets[c].status \in {"none", "rejected", "open", "closed"}
          /\ sockets[c].userId \in {0} \cup UserIds
          /\ Len(sockets[c].inbox) <= MaxEvents
    /\ rooms \subseteq {workspaceRoom(w) : w \in Workspaces} \X ConnIds
    /\ \A c \in ConnIds : Cardinality({j \in joining : j.conn = c}) <= MaxJoining
    /\ members \subseteq MemberPairs
    /\ hook.accessToken \in AccessTokens /\ hook.workspaceId \in Selections
    /\ hook.socket \in {0} \cup ConnIds
    /\ hook.closed \subseteq hook.made /\ hook.made \subseteq ConnIds
    /\ hook.pending \subseteq hook.emitted
    /\ hook.emitted \subseteq ConnIds \X Workspaces
    /\ Len(events) <= MaxEvents

(***************************************************************************)
(* Properties.  `last` is set only in the state right after a response, so *)
(* a predicate over `last` is a postcondition of the responding step.      *)
(***************************************************************************)
Responded(k) == last.pc = "done" /\ last.kind = k

\* the records a refresh of the token c has created
RotatedFrom(c) == {i \in 1..Len(records) : records[i].rotatedFrom = hashToken(c)}

\* the record of the token c, 0 if there is none
RecordOf(c) == RefreshTokenFindOne(hashToken(c))

\* C1: of the Refresh requests that present one refresh token at most one
\* succeeds, under every interleaving: no two records are rotated from the
\* same token.
C1_AtMostOneRefreshSucceeds ==
    \A i, j \in 1..Len(records) :
        (i # j /\ records[i].rotatedFrom # 0)
            => records[i].rotatedFrom # records[j].rotatedFrom

\* C2: a Refresh that finds the record of its token revoked fails and leaves
\* no valid record of that record's user.
C2_ReuseRevokesAllOfUser ==
    (Responded("refresh") /\ last.why = "revoked")
        => /\ last.resp.status = 401
           /\ \A i \in 1..Len(records) :
                 records[i].userId = last.snapshot.userId => ~Valid(records[i], now)

\* C3: the refresh tokens of the records are pairwise distinct, a successful
\* Refresh returns the token of the record it created, and a Refresh that
\* presents a token already rotated is answered 401, mints no token and
\* creates no record.
C3_RotationChain ==
    /\ \A i, j \in 1..Len(records) :
          i # j => records[i].tokenHash # records[j].tokenHash
    /\ (Responded("refresh") /\ last.resp.status = 200)
          => /\ last.resp.setCookie # last.cookie
             /\ records[Len(records)].tokenHash = hashToken(last.resp.setCookie)
             /\ records[Len(records)].rotatedFrom = hashToken(last.cookie)
    /\ (Responded("refresh") /\ last.replayed)
          => /\ last.resp.status = 401
             /\ last.resp.setCookie = 0
             /\ last.newToken = 0
             /\ records = last.before
             /\ Cardinality(RotatedFrom(last.cookie)) = 1

\* a chain of two rotations whose first token is replayed
C3_Witness ==
    /\ Responded("refresh") /\ last.replayed
    /\ \E i, j \in 1..Len(records) :
          /\ records[i].rotatedFrom = hashToken(last.cookie)
          /\ records[j].rotatedFrom = records[i].tokenHash

\* C4: a Refresh that starts after a Logout presenting the same token has
\* completed is answered 401 and issues neither a refresh token nor an
\* access token.
C4_NoRefreshAfterLogout ==
    (Responded("refresh") /\ last.afterLogout)
        => /\ last.resp.status = 401
           /\ last.resp.setCookie = 0
           /\ last.resp.accessToken = NoToken
           /\ last.newToken = 0
           /\ records = last.before

\* the token has a record, which no refresh has rotated: the logout revoked it
C4_Witness ==
    /\ Responded("refresh") /\ last.afterLogout
    /\ last.storedId # 0
    /\ ~last.replayed

\* C5: Logout answers 200 {ok: true} and clears the cookie whatever it is
\* presented with, and a Logout presenting a token an earlier Logout has
\* presented leaves the table as it is.
C5_LogoutIdempotent ==
    Responded("logout")
        => /\ last.resp = JsonOk
           /\ last.resp.status = 200 /\ last.resp.clearCookie
           /\ last.afterLogout => records = last.before

\* a second Logout of a token that has a record, at a later time than the
\* record's revocation
C5_Witness ==
    /\ Responded("logout") /\ last.afterLogout
    /\ RecordOf(last.cookie) # 0
    /\ records[RecordOf(last.cookie)].revokedAt # last.revokedAt

\* C6 as stated: a Refresh succeeds only if its lookup found a record of the
\* presented token with revokedAt null and strictly before its expiry.
C6_SucceedsOnlyStrictlyBeforeExpiry ==
    (Responded("refresh") /\ last.resp.status = 200)
        => /\ last.storedId # 0
           /\ last.snapshot.tokenHash = hashToken(last.cookie)
           /\ last.snapshot.revokedAt = NullDate
           /\ last.lookupAt < last.snapshot.expiresAt

\* C6 amended: a Refresh succeeds only if its lookup found a record of the
\* presented token with revokedAt null and not after its expiry; at the
\* instant now = expiresAt the record is still accepted.
C6_SucceedsOnlyUntilExpiry ==
    (Responded("refresh") /\ last.resp.status = 200)
        => /\ last.storedId # 0
           /\ last.snapshot.tokenHash = hashToken(last.cookie)
           /\ last.snapshot.revokedAt = NullDate
           /\ last.lookupAt <= last.snapshot.expiresAt

\* a Refresh that succeeded on a lookup at the instant of expiry
C6_Witness ==
    /\ Responded("refresh") /\ last.resp.status = 200
    /\ last.lookupAt = last.snapshot.expiresAt

\* C7: a successful Refresh leaves the record of its token revoked, appends
\* exactly one record, valid and owned by the user of the consumed record,
\* and answers with an access assertion whose subject is that user.
C7_RefreshRotatesForSameUser ==
    (Responded("refresh") /\ last.resp.status = 200)
        => /\ records[last.storedId].revokedAt # NullDate
           /\ Len(records) = Len(last.before) + 1
           /\ SubSeq(records, 1, Len(last.before)) = last.before
           /\ records[Len(records)].userId = last.snapshot.userId
           /\ records[Len(records)].userId = records[last.storedId].userId
           /\ Valid(records[Len(records)], now)
           /\ last.resp.accessToken.sub = last.snapshot.userId
           /\ last.resp.user = last.snapshot.userId

\* a successful Refresh of the second user's token while the first user has
\* records too
C7_Witness ==
    /\ Responded("refresh") /\ last.resp.status = 200
    /\ last.snapshot.userId = 2
    /\ \E i \in 1..Len(records) : records[i].userId = 1

\* C8: a Refresh that fails for a missing cookie, an unknown token or an
\* expired record is answered 401, leaves the table unchanged and sets no
\* cookie.
C8_FailedRefreshChangesNothing ==
    (Responded("refresh") /\ last.why \in {"missing", "nomatch", "expired"})
        => /\ last.resp.status = 401
           /\ last.resp.setCookie = 0
           /\ last.newToken = 0
           /\ records = last.before

\* a Refresh rejected for an expired, unrevoked record
C8_Witness ==
    /\ Responded("refresh") /\ last.why = "expired"
    /\ last.snapshot.revokedAt = NullDate
    /\ last.snapshot.expiresAt < now

\* C9: the failure response of Refresh is the same for an unknown token, an
\* expired record and a revoked record.
C9_RefreshFailuresIndistinguishable ==
    /\ (Responded("refresh") /\ last.why \in {"nomatch", "expired", "revoked"})
          => last.resp = JsonMessage(401, "Refresh token invalid")
    /\ \A a, b \in {"nomatch", "expired", "revoked"} :
          StoredRejectedResponse(a) = StoredRejectedResponse(b)

\* a Refresh rejected for a record that is both revoked and expired
C9_Witness ==
    /\ Responded("refresh") /\ last.why = "revoked"
    /\ last.snapshot.expiresAt < now

\* C10: Login answers an unknown email and a wrong password with the same
\* 401 response, creates no record and sets no cookie.
C10_LoginFailuresIndistinguishable ==
    (Responded("login") /\ last.why \in {"unknownEmail", "wrongPassword"})
        => /\ last.resp = JsonMessage(401, "Invalid credentials")
           /\ last.resp.setCookie = 0
           /\ last.newToken = 0
           /\ records = last.before

\* a Login with an unknown email while another email is registered
C10_Witness ==
    /\ Responded("login") /\ last.why = "unknownEmail"
    /\ Len(users) > 0

\* C11: a successful login leaves the records that existed unchanged and adds
\* exactly one: it belongs to the user whose email and password were given,
\* is stored under the hash of the token set in the cookie, and is valid
C11_LoginAddsOneValidRecord ==
    (Responded("login") /\ last.resp.status = 200) =>
        LET u == UserFindOne(ToLowerCase(last.email))
            n == Len(records) IN
        /\ u # 0
        /\ bcryptCompare(last.password, users[u].passwordHash)
        /\ n = Len(last.before) + 1
        /\ SubSeq(records, 1, n - 1) = last.before
        /\ records[n].userId = u
        /\ records[n].tokenHash = hashToken(last.resp.setCookie)
        /\ last.resp.setCookie # 0
        /\ Valid(records[n], now)
        /\ last.resp.user = u

\* a login succeeded for a user who already held a valid record, and holds
\* two valid records now
C11_Witness ==
    /\ Responded("login") /\ last.resp.status = 200
    /\ Cardinality({i \in 1..Len(records) :
                       /\ records[i].userId = last.userId
                       /\ Valid(records[i], now)}) >= 2

\* C12: a register with all fields given whose email equals, ignoring letter
\* case, the email of a user that exists when the request arrives
\* (usersBefore) is answered 409 without a cookie,
\* and creates neither a user nor a record
C12_RegisterExistingEmailConflicts ==
    (/\ Responded("register")
     /\ last.email # "" /\ last.name # "" /\ last.password # ""
     /\ \E i \in 1..Len(last.usersBefore) :
            ToLowerCase(last.usersBefore[i].email) = ToLowerCase(last.email)) =>
        /\ last.resp = JsonMessage(409, "Email already in use")
        /\ last.resp.setCookie = 0
        /\ users = last.usersBefore
        /\ records = last.before

\* a register was refused for an email that differs from the existing
\* user's email in letter case only
C12_Witness ==
    /\ Responded("register") /\ last.resp.status = 409
    /\ \E i \in 1..Len(users) :
          /\ users[i].email # last.email
          /\ users[i].email = ToLowerCase(last.email)

\* C13 as stated: a register with an email that is not registered succeeds,
\* and a login with the same credentials that follows it with no request in
\* between succeeds for the same user with a different access token
C13_RegisterThenLoginDistinctTokens ==
    /\ (/\ Responded("register")
         /\ last.email # "" /\ last.name # "" /\ last.password # ""
         /\ UserFindOne(ToLowerCase(last.email)) \notin 1..Len(last.usersBefore)) =>
            last.resp.status = 201 /\ last.resp.accessToken.sub = last.resp.user
    /\ (/\ Responded("login")
         /\ last.afterRegister.user # 0
         /\ last.email = last.afterRegister.email
         /\ last.password = last.afterRegister.password) =>
            /\ last.resp.status = 200
            /\ last.resp.user = last.afterRegister.user
            /\ last.resp.accessToken.sub = last.afterRegister.accessToken.sub
            /\ last.resp.accessToken # last.afterRegister.accessToken

\* C13 amended: both succeed for the same user, and the two access tokens
\* differ exactly when they were issued at different instants
C13_RegisterThenLoginSameUser ==
    /\ (/\ Responded("register")
         /\ last.email # "" /\ last.name # "" /\ last.password # ""
         /\ UserFindOne(ToLowerCase(last.email)) \notin 1..Len(last.usersBefore)) =>
            last.resp.status = 201 /\ last.resp.accessToken.sub = last.resp.user
    /\ (/\ Responded("login")
         /\ last.afterRegister.user # 0
         /\ last.email = last.afterRegister.email
         /\ last.password = last.afterRegister.password) =>
            /\ last.resp.status = 200
            /\ last.resp.user = last.afterRegister.user
            /\ last.resp.accessToken.sub = last.afterRegister.accessToken.sub
            /\ (last.resp.accessToken # last.afterRegister.accessToken
                  <=> last.resp.accessToken.iat # last.afterRegister.accessToken.iat)

\* a login with the credentials of the registration just before it, made
\* with a mixed-case email at a later instant, has been answered
C13_Witness ==
    /\ Responded("login")
    /\ last.afterRegister.user # 0
    /\ last.email = last.afterRegister.email
    /\ last.password = last.afterRegister.password
    /\ last.email = "A@x"
    /\ last.resp.accessToken.iat > last.afterRegister.accessToken.iat

(***************************************************************************)
(* Properties of the gateway.                                              *)
(***************************************************************************)
\* the events the socket c has received
Inbox(c) == {sockets[c].inbox[i] : i \in 1..Len(sockets[c].inbox)}

\* C14: a connection attempt whose token is missing, not a string, badly
\* signed, expired or without a subject is rejected: the socket is bound to
\* no user, is in no room, has no join_workspace in progress or answered,
\* and has received no event
C14_BadHandshakeRejected ==
    \A c \in ConnIds :
        (/\ sockets[c].status # "none"
         /\ \/ ~sockets[c].token.given
            \/ ~sockets[c].token.string
            \/ ~sockets[c].token.signed
            \/ sockets[c].token.exp <= now
            \/ sockets[c].token.sub \notin UserIds) =>
            /\ sockets[c].status = "rejected"
            /\ sockets[c].userId = 0
            /\ RoomsOf(c) = {}
            /\ \A j \in joining : j.conn # c
            /\ ack.conn # c
            /\ ~sockets[c].refused
            /\ sockets[c].inbox = <<>>

\* an attempt with a signed token without a subject was rejected, and an
\* event has been published to a room that another socket is in
C14_Witness ==
    \E c \in ConnIds :
        /\ sockets[c].status = "rejected"
        /\ sockets[c].token.signed /\ sockets[c].token.sub = 0
        /\ sockets[c].token.exp > now
        /\ \E k \in 1..Len(events), d \in ConnIds : k \in Inbox(d)

\* C15: a socket has received an event exactly if it is of the event's
\* audience: when the event was published, the socket was connected and in
\* the room of the event's workspace; so a socket that has joined no workspace receives nothing and
\* a socket in the room of W alone receives the events of W and no other
C15_DeliveredToRoomOnly ==
    \A c \in ConnIds, k \in 1..Len(events) :
        k \in Inbox(c) <=> c \in events[k].audience

\* an event was published to a workspace: a socket in its room has it, a
\* socket in the room of the other workspace alone and a socket in no room
\* do not (the three cases of two sockets at a time)
C15_Witness ==
    \E k \in 1..Len(events), c, d \in ConnIds :
        /\ k \in Inbox(c)
        /\ sockets[d].status = "open" /\ sockets[d].inbox = <<>>
        /\ RoomsOf(d) = Workspaces \ {events[k].workspaceId}
        /\ joining = {} /\ ack = NoAck

\* C16: a socket enters the room of W only in the step in which a
\* join_workspace(W) of that socket returns after its lookup found the
\* membership (W, the socket's user); and no socket of a user is in the room
\* of, or has an event of, a workspace whose membership that user never gets
C16_RoomOnlyByMembership ==
    /\ [][\/ rooms' \subseteq rooms
          \/ /\ ack'.pc = "done" /\ ack'.ok
             /\ <<ack'.workspaceId, sockets[ack'.conn].userId>> \in members
             /\ sockets[ack'.conn].userId \in UserIds
             /\ rooms' = rooms \cup {<<workspaceRoom(ack'.workspaceId), ack'.conn>>}]_vars
    /\ [](\A c \in ConnIds, w \in WorkspaceIds :
            <<w, sockets[c].userId>> \notin MemberPairs =>
                /\ <<workspaceRoom(w), c>> \notin rooms
                /\ \A k \in Inbox(c) : events[k].workspaceId # w)

\* a socket of a user who is never a member of a workspace is connected and
\* in the room of another workspace, and an event of the first workspace
\* has been delivered to a socket of a member
C16_Witness ==
    \E c, d \in ConnIds, k \in 1..Len(events) :
        /\ sockets[c].status = "open"
        /\ <<events[k].workspaceId, sockets[c].userId>> \notin MemberPairs
        /\ RoomsOf(c) # {}
        /\ sockets[c].refused
        /\ k \in Inbox(d)

C18_DisconnectedInNoRoom ==
    \A c \in ConnIds : sockets[c].status = "closed" => RoomsOf(c) = {}

\* C19: no socket receives an event twice, and a socket has only events
\* that were published while it was connected and in the room
C19_AtMostOnceNoReplay ==
    \A c \in ConnIds :
        /\ Cardinality(Inbox(c)) = Len(sockets[c].inbox)
        /\ \A k \in Inbox(c) : c \in events[k].audience

\* a socket joined the room of a workspace after an event was published to
\* it, and has not received the event
C19_Witness ==
    \E c \in ConnIds, k \in 1..Len(events) :
        /\ ack.pc = "done" /\ ack.ok /\ ack.conn = c
        /\ ack.workspaceId = events[k].workspaceId
        /\ sockets[c].status = "open"
        /\ c \notin events[k].audience
        /\ <<workspaceRoom(events[k].workspaceId), c>> \in rooms
        /\ k \notin Inbox(c)

\* C20: once the revokedAt of a record is set it is never written again:
\* it keeps its timestamp in every step
C20_RevokedAtWrittenOnce ==
    [][\A i \in 1..Len(records) :
          records[i].revokedAt # NullDate =>
              records'[i].revokedAt = records[i].revokedAt]_vars

(***************************************************************************)
(* Lineages and lifecycle of records.                                      *)
(***************************************************************************)
\* the record of a lineage's issuance: the record a login or register
\* created, from which record i descends through refreshes
RECURSIVE Root(_)
Root(i) ==
    IF records[i].rotatedFrom = 0 THEN i
    ELSE Root(RefreshTokenFindOne(records[i].rotatedFrom))

\* C21: no two valid records descend from the same issuance
C21_OneValidPerLineage ==
    \A i, j \in 1..Len(records) :
        (i # j /\ Valid(records[i], now) /\ Valid(records[j], now)) =>
            Root(i) # Root(j)


\* the record a logout that has just been answered found under its cookie,
\* as it was before the logout, if it was unrevoked and past its expiry
ExpiredBeforeLogout(i) ==
    /\ Responded("logout")
    /\ i = RefreshTokenFindOne(hashToken(last.cookie))
    /\ i \in 1..Len(last.before)
    /\ last.before[i].revokedAt = NullDate
    /\ last.before[i].expiresAt < now

\* the refresh that has just been answered found a record that was
\* unrevoked and past its expiry
ExpiredAtRefresh ==
    /\ Responded("refresh")
    /\ last.storedId # 0
    /\ last.snapshot.revokedAt = NullDate
    /\ last.snapshot.expiresAt < last.lookupAt

\* C22 as stated: neither a refresh nor a logout that presents the token of
\* a record that is unrevoked and past its expiry changes the record
C22_ExpiredIsTerminal ==
    /\ ExpiredAtRefresh => records[last.storedId] = last.snapshot
    /\ \A i \in 1..Len(records) :
          ExpiredBeforeLogout(i) => records[i] = last.before[i]

\* C22 amended: such a refresh is answered 401 and changes no record; such a
\* logout sets the revokedAt of the record and changes nothing else
C22_ExpiredIsTerminalForRefresh ==
    /\ ExpiredAtRefresh =>
          /\ last.resp.status = 401
          /\ records = last.before
          /\ records[last.storedId] = last.snapshot
    /\ \A i \in 1..Len(records) :
          ExpiredBeforeLogout(i) =>
              records = [last.before EXCEPT ![i].revokedAt = last.revokedAt]

\* a refresh has presented the token of a record that was unrevoked and
\* past its expiry
C22_Witness == ExpiredAtRefresh /\ last.resp.setCookie = 0


\* a step answers a register, login or refresh with success
SuccessStep ==
    /\ last.pc # "done" /\ last'.pc = "done"
    /\ last'.kind \in {"register", "login", "refresh"}
    /\ last'.resp.status \in {200, 201}

\* C23: no step deletes a record or changes whose it is; a step adds a
\* record exactly if it answers a register, login or refresh with success,
\* and then it adds one
C23_RecordsOnlyGrow ==
    [][/\ Len(records') >= Len(records)
       /\ \A i \in 1..Len(records) :
             /\ records'[i].tokenHash = records[i].tokenHash
             /\ records'[i].userId = records[i].userId
             /\ records'[i].expiresAt = records[i].expiresAt
       /\ IF SuccessStep
          THEN Len(records') = Len(records) + 1
          ELSE Len(records') = Len(records)]_vars

\* a logout has revoked a record while the table holds another record, which
\* a refresh created
C23_Witness ==
    /\ Responded("logout")
    /\ records # last.before
    /\ Len(records) = Len(last.before)
    /\ \E i \in 1..Len(records) : records[i].rotatedFrom # 0


\* C24: no two users have the same email ignoring letter case, and a
\* register that is answered 201 has created the only user of its email
C24_EmailsUnique ==
    /\ \A i, j \in 1..Len(users) :
          ToLowerCase(users[i].email) = ToLowerCase(users[j].email) => i = j
    /\ (Responded("register") /\ last.resp.status = 201) =>
          \A i \in 1..Len(users) :
              users[i].email = ToLowerCase(last.email) => i = last.resp.user

\* of two registers in flight at once for emails that differ in letter case
\* only, the second to insert has been refused by the index
C24_Witness ==
    /\ Responded("register") /\ last.why = "duplicateKey"
    /\ last.usersBefore = <<>>
    /\ \E i \in 1..Len(users) :
          users[i].email = ToLowerCase(last.email) /\ users[i].email # last.email


\* C25: the user bound to a connected or closed socket is the subject of the
\* token it presented, the binding changes in no step, and the membership
\* lookup of a join_workspace is made for that user
C25_BoundUserIsTokenSubject ==
    /\ [](\A c \in ConnIds :
            sockets[c].status \in {"open", "closed"} =>
                sockets[c].userId \in UserIds /\ sockets[c].userId = sockets[c].token.sub)
    /\ [][\A c \in ConnIds :
            sockets[c].status \in {"open", "closed"} =>
                sockets'[c].userId = sockets[c].userId]_vars
    /\ []((ack.pc = "done" /\ ack.workspaceId # "") =>
            ack.userId = sockets[ack.conn].token.sub)

\* two sockets of different users are connected, and a join_workspace of
\* the second has been answered after its lookup
C25_Witness ==
    \E c \in ConnIds :
        /\ sockets[c].status = "open" /\ sockets[c].userId = 1
        /\ ack.pc = "done" /\ ack.conn # c /\ ack.userId = 2 /\ ack.ok


\* C26: a socket whose join_workspace has just been answered { ok: true }
\* is in the room of the workspace; a connected socket in a room stays in
\* it for as long as it is connected; and an event published to the
\* workspace of a room is received by every connected socket of the room
C26_JoinedBeforeAcknowledged ==
    /\ []((ack.pc = "done" /\ ack.ok) =>
            <<workspaceRoom(ack.workspaceId), ack.conn>> \in rooms)
    /\ [][\A c \in ConnIds, w \in Workspaces :
            (<<workspaceRoom(w), c>> \in rooms /\ sockets[c].status = "open") =>
                /\ sockets'[c].status = "open" =>
                      <<workspaceRoom(w), c>> \in rooms'
                /\ (/\ Len(events') = Len(events) + 1
                    /\ events'[Len(events')].workspaceId = w) =>
                      Len(events') \in Inbox(c)']_vars

\* a socket has received an event of a workspace that it joined, and is
\* still connected, with no join_workspace in progress
C26_Witness ==
    \E c \in ConnIds, k \in 1..Len(events) :
        /\ k \in Inbox(c)
        /\ sockets[c].status = "open"
        /\ events[k].workspaceId \in RoomsOf(c)
        /\ joining = {} /\ ack = NoAck


\* C27: a call of emitWorkspaceEvent leaves the server handle, the rooms,
\* the joins in progress and the memberships as they are, and of the
\* sockets changes only the inbox of those of its audience; it changes
\* nothing when the gateway is not initialised or the room has no connected
\* socket
C27_EmitChangesNoGatewayState ==
    [][Len(events') = Len(events) + 1 =>
          LET e == events'[Len(events')] IN
          /\ UNCHANGED <<io, rooms, joining, ack, members>>
          /\ \A c \in ConnIds :
                IF c \in e.audience
                THEN sockets'[c] = [sockets[c] EXCEPT !.inbox = Append(@, Len(events'))]
                ELSE sockets'[c] = sockets[c]
          /\ (~io \/ e.audience = {}) => sockets' = sockets]_vars

\* emitWorkspaceEvent has been called before initSocket
C27_Witness ==
    /\ ~io
    /\ Len(events) = 1
    /\ members # {}


\* C28: when a logout of a token has completed while a refresh of the same
\* token was in flight, the refresh leaves no valid record rotated from the
\* token
C28_LogoutEndsRacingRefresh ==
    (/\ Responded("refresh")
     /\ last.cookie \in loggedOut
     /\ ~last.afterLogout) =>
        \A i \in RotatedFrom(last.cookie) : ~Valid(records[i], now)


\* C29: a logout changes no record but the one stored under the hash of the
\* token it presents, and creates none
C29_LogoutChangesOneRecord ==
    Responded("logout") =>
        /\ Len(records) = Len(last.before)
        /\ \A i \in 1..Len(records) :
              records[i] # last.before[i] =>
                  /\ records[i].tokenHash = hashToken(last.cookie)
                  /\ i = RefreshTokenFindOne(hashToken(last.cookie))

\* a logout has revoked a record of a user who holds another valid record
C29_Witness ==
    /\ Responded("logout")
    /\ \E i, j \in 1..Len(records) :
          /\ records[i] # last.before[i]
          /\ j # i
          /\ records[j].userId = records[i].userId
          /\ Valid(records[j], now)


\* the record a refresh looked up was valid at the lookup, and the user it
\* belongs to was gone from the collection when the request arrived
OrphanedRefresh ==
    /\ Responded("refresh")
    /\ last.storedId # 0
    /\ Valid(last.snapshot, last.lookupAt)
    /\ last.usersBefore[last.snapshot.userId] = NoUser

\* C30: a refresh presenting a valid token of a user that no longer exists is
\* answered 401 without a cookie, and the records are as they were: the
\* presented record unrevoked, no record added
C30_OrphanedRefreshChangesNothing ==
    OrphanedRefresh =>
        /\ last.resp.status = 401
        /\ last.resp.setCookie = 0
        /\ last.resp.accessToken = NoToken
        /\ records = last.before
        /\ records[last.storedId] = last.snapshot
        /\ records[last.storedId].revokedAt = NullDate

\* a refresh of a valid token of a removed user has been answered
C30_Witness ==
    /\ OrphanedRefresh
    /\ last.why = "noUser"
    /\ Valid(records[last.storedId], now)


\* a step of a refresh or a logout request, from its arrival to its response
SessionStep ==
    \/ \E r \in Slots :
          /\ req'[r] # req[r]
          /\ req[r].kind \in {"refresh", "logout"} \/ req'[r].kind \in {"refresh", "logout"}
    \/ last' # last /\ last'.kind \in {"refresh", "logout"}

\* C31: no step of a refresh or a logout changes the gateway (the server,
\* the sockets and what they have received, the rooms, the joins in flight),
\* and an event reaches every socket that is connected and in the room when
\* it is published, whether or not the socket's user is still signed in
C31_SessionLeavesGateway ==
    /\ [][SessionStep => UNCHANGED gateway]_vars
    /\ [](\A c \in ConnIds, k \in 1..Len(events) :
             c \in events[k].audience => k \in Inbox(c))

\* a token was logged out, and the socket of its user, still connected and
\* in its room, has an event published while the user held no valid record
C31_Witness ==
    /\ loggedOut # {}
    /\ \E c \in ConnIds, k \in 1..Len(events) :
          /\ sockets[c].status = "open"
          /\ events[k].workspaceId \in RoomsOf(c)
          /\ k \in Inbox(c)
          /\ sockets[c].userId \notin events[k].signedIn
          /\ \E i \in 1..Len(records) : records[i].userId = sockets[c].userId


\* C32: while a socket stays connected, the set of rooms it is in only
\* grows, whatever step is taken: a join_workspace that succeeds or is
\* refused, a publish, the removal of a membership
C32_JoinedSetOnlyGrows ==
    [][\A c \in ConnIds :
          (sockets[c].status = "open" /\ sockets'[c].status = "open") =>
              RoomsOf(c) \subseteq RoomsOf(c)']_vars

\* a connected socket is still in the room of a workspace after the
\* membership of its user was removed and a new join_workspace of that
\* workspace was refused
C32_Witness ==
    /\ ack.pc = "done" /\ ~ack.ok /\ ack.message = "Forbidden"
    /\ sockets[ack.conn].status = "open"
    /\ ack.workspaceId \in RoomsOf(ack.conn)
    /\ <<ack.workspaceId, sockets[ack.conn].userId>> \notin members
    /\ sockets[ack.conn].inbox # <<>>


\* C33: a join_workspace that reached its lookup is acknowledged ok exactly
\* if the user of the socket's handshake token is a member of the workspace
\* at the lookup, whether or not the token has expired since; and an event
\* reaches every connected socket of the room, expired token or not
C33_JoinIgnoresExpiry ==
    /\ (ack.pc = "done" /\ ack.userId # 0) =>
          /\ ack.userId = sockets[ack.conn].token.sub
          /\ ack.ok <=> MembershipFindOne(ack.workspaceId, sockets[ack.conn].token.sub)
          /\ ack.ok => ack.workspaceId \in RoomsOf(ack.conn)
    /\ \A c \in ConnIds, k \in 1..Len(events) :
          (c \in events[k].audience /\ sockets[c].token.exp <= events[k].at) =>
              k \in Inbox(c)

\* a socket whose token has expired has received an event published after
\* the expiry, and a join_workspace it sent after the expiry is acknowledged ok
C33_Witness ==
    /\ ack.pc = "done" /\ ack.ok
    /\ sockets[ack.conn].status = "open"
    /\ sockets[ack.conn].token.exp <= now
    /\ \E k \in Inbox(ack.conn) :
          /\ sockets[ack.conn].token.exp <= events[k].at
          /\ events[k].workspaceId # ack.workspaceId


\* the lookup of a join_workspace(W) returns, for a connected socket that is
\* already in the room of W and whose user is still a member of W
Rejoin(j) ==
    /\ j \in joining /\ j \notin joining'
    /\ sockets[j.conn].status = "open"
    /\ <<workspaceRoom(j.workspaceId), j.conn>> \in rooms
    /\ MembershipFindOne(j.workspaceId, sockets[j.conn].userId)

\* C34: a join_workspace(W) of a socket already in the room of W is
\* acknowledged ok and leaves every room with the sockets it had, and no
\* socket receives an event more than once
C34_JoinIdempotent ==
    /\ [][\A j \in joining :
             Rejoin(j) =>
                 /\ rooms' = rooms
                 /\ ack'.pc = "done" /\ ack'.conn = j.conn /\ ack'.ok
                 /\ ack'.workspaceId = j.workspaceId]_vars
    /\ [](\A c \in ConnIds :
             /\ Cardinality(Inbox(c)) = Len(sockets[c].inbox)
             /\ \A k \in 1..Len(events) :
                   c \in events[k].audience => k \in Inbox(c))

\* a socket that was in the room of W and has received an event of W once is
\* acknowledged ok for another join_workspace(W) and is in the room as before
C34_Witness ==
    /\ ack.pc = "done" /\ ack.ok /\ ack.given
    /\ ack.workspaceId \in ack.before
    /\ RoomsOf(ack.conn) = ack.before
    /\ sockets[ack.conn].status = "open"
    /\ Len(sockets[ack.conn].inbox) = 1
    /\ \E k \in Inbox(ack.conn) : events[k].workspaceId = ack.workspaceId


(***************************************************************************)
(* Properties of the client hook.                                          *)
(***************************************************************************)
\* C35: whenever the effects have run with an access token and a selected
\* workspace W, the module's socket exists, has emitted join_workspace(W)
\* and has the event handlers registered
C35_CurrentSocketJoined ==
    (hook.accessToken # 0 /\ hook.workspaceId # "") =>
        /\ hook.socket # 0
        /\ <<hook.socket, hook.workspaceId>> \in hook.emitted
        /\ hook.socket \in hook.handlers

\* C36: an event of a workspace other than the one the client has selected
\* and emitted join_workspace for is not delivered to the client's socket
C36_SwitchedAwayNotDelivered ==
    \A k \in 1..Len(events) :
        LET c == events[k].client.socket
            w == events[k].client.workspaceId IN
        (/\ c # 0
         /\ w # "" /\ w # events[k].workspaceId
         /\ <<c, w>> \in hook.emitted) =>
            k \notin Inbox(c)

====
